---------------------------- MODULE Spec2Model ----------------------------
(***************************************************************************)
(* Owner-network subsystem of src/api/main.py: the corporate-name          *)
(* normaliser _fuzzy_cluster_key, the greedy clusterer _cluster_entities   *)
(* and the graph builder get_owner_network (two-hop SQL traversal plus     *)
(* node/edge assembly).                                                    *)
(*                                                                         *)
(* Text is modelled as a sequence of one-character strings, so that        *)
(* upper(), strip(), the regular expressions, ILIKE, str.replace and       *)
(* difflib's SequenceMatcher are computed character by character.  SQL     *)
(* NULL and Python None are the value NULL, which is no text.              *)
(***************************************************************************)
EXTENDS Integers, Sequences, FiniteSets, TLC

(***************************************************************************)
(* Characters and elementary text operations                               *)
(***************************************************************************)

\* The characters of a literal, e.g. Chars("LLC") = <<"L", "L", "C">>.
Chars(str) == SubSeq([i \in 1..Len(str) |-> SubSeq(str, i, i)], 1, Len(str))

LowerLetters == Chars("abcdefghijklmnopqrstuvwxyz")
UpperLetters == Chars("ABCDEFGHIJKLMNOPQRSTUVWXYZ")
Digits == {"0", "1", "2", "3", "4", "5", "6", "7", "8", "9"}

\* Whitespace as str.strip(), str.split() and the regex class \s see it.
IsSpace(c) == c \in {" ", "\t", "\n", "\r"}

IsUpperLetter(c) == c \in {UpperLetters[i] : i \in 1..26}
IsLowerLetter(c) == c \in {LowerLetters[i] : i \in 1..26}

\* The regex class \w: letters, digits and the underscore.
IsWordChar(c) == IsUpperLetter(c) \/ IsLowerLetter(c) \/ c \in Digits \/ c = "_"

ToUpper(c) ==
    IF IsLowerLetter(c)
    THEN UpperLetters[CHOOSE i \in 1..26 : LowerLetters[i] = c]
    ELSE c

ToLower(c) ==
    IF IsUpperLetter(c)
    THEN LowerLetters[CHOOSE i \in 1..26 : UpperLetters[i] = c]
    ELSE c

\* str.upper()
upper(s) == SubSeq([i \in 1..Len(s) |-> ToUpper(s[i])], 1, Len(s))

\* str.strip(): drop leading and trailing whitespace.
strip(s) ==
    LET keep == {i \in 1..Len(s) : ~IsSpace(s[i])}
    IN  IF keep = {} THEN <<>>
        ELSE LET lo == CHOOSE i \in keep : \A j \in keep : i <= j
                 hi == CHOOSE i \in keep : \A j \in keep : j <= i
             IN  SubSeq(s, lo, hi)

\* str.replace(old, new) for one-character old and new.
replace(s, old, new) == [i \in 1..Len(s) |-> IF s[i] = old THEN new ELSE s[i]]

\* str.split(): the maximal runs of non-whitespace characters, in order.
split(s) ==
    LET starts == {i \in 1..Len(s) :
                     ~IsSpace(s[i]) /\ (i = 1 \/ IsSpace(s[i - 1]))}
        EndOf(i) == CHOOSE j \in i..Len(s) :
                      /\ \A k \in i..j : ~IsSpace(s[k])
                      /\ (j = Len(s) \/ IsSpace(s[j + 1]))
        RECURSIVE Toks(_)
        Toks(from) ==
            IF \E i \in starts : i >= from
            THEN LET i == CHOOSE i \in starts :
                            i >= from /\ \A k \in starts : k >= from => i <= k
                 IN  <<SubSeq(s, i, EndOf(i))>> \o Toks(EndOf(i) + 1)
            ELSE <<>>
    IN  Toks(1)

(***************************************************************************)
(* _fuzzy_cluster_key                                                      *)
(***************************************************************************)

\* Pattern elements: a required character, an optional character (X?),
\* or a possibly empty run of whitespace (\s*).
Lit(str) == [i \in 1..Len(str) |-> [k |-> "lit", c |-> SubSeq(str, i, i)]]
Opt(ch) == <<[k |-> "opt", c |-> ch]>>
Ws == <<[k |-> "ws", c |-> " "]>>

\* The alternatives of the suffix pattern, in the order the regex lists them.
SuffixAlternatives == <<
    Lit("LLC"),
    Lit("L") \o Opt(".") \o Lit("L") \o Opt(".") \o Lit("C") \o Opt("."),
    Lit("CORP") \o Opt("."),
    Lit("CORPORATION"),
    Lit("INC") \o Opt("."),
    Lit("INCORPORATED"),
    Lit("CO") \o Opt("."),
    Lit("COMPANY"),
    Lit("LTD") \o Opt("."),
    Lit("LIMITED"),
    Lit("LP"),
    Lit("L") \o Opt(".") \o Lit("P") \o Opt("."),
    Lit("ASSOCIATE") \o Opt("S"),
    Lit("MGMT"),
    Lit("MANAGEMENT"),
    Lit("REALTY"),
    Lit("REAL") \o Ws \o Lit("ESTATE"),
    Lit("PROPERTIES"),
    Lit("GROUP"),
    Lit("HOLDING") \o Opt("S") >>

\* \b at offset p of s (between s[p] and s[p+1]; p = 0 is the start).
WordBoundary(s, p) ==
    LET before == p >= 1 /\ IsWordChar(s[p])
        after == p < Len(s) /\ IsWordChar(s[p + 1])
    IN  before # after

\* Offsets at which pattern pat, from element k on, can end when matched
\* at offset p of s, in the backtracking matcher's order of preference
\* (quantifiers are greedy).
RECURSIVE PatEnds(_, _, _, _)
PatEnds(pat, k, s, p) ==
    IF k > Len(pat) THEN <<p>>
    ELSE LET e == pat[k]
             here == p < Len(s) /\ s[p + 1] = e.c
         IN  CASE e.k = "lit" ->
                    IF here THEN PatEnds(pat, k + 1, s, p + 1) ELSE <<>>
               [] e.k = "opt" ->
                    (IF here THEN PatEnds(pat, k + 1, s, p + 1) ELSE <<>>)
                        \o PatEnds(pat, k + 1, s, p)
               [] e.k = "ws" ->
                    IF p < Len(s) /\ IsSpace(s[p + 1])
                    THEN PatEnds(pat, k, s, p + 1) \o PatEnds(pat, k + 1, s, p)
                    ELSE PatEnds(pat, k + 1, s, p)

\* End offset of the match of \b(alt1|alt2|...)\b starting at offset p,
\* or -1 when there is none: the first alternative, and within it the first
\* preference, whose end is a word boundary.
SuffixMatchEnd(s, p) ==
    IF ~WordBoundary(s, p) THEN -1
    ELSE LET RECURSIVE Try(_)
             Try(a) ==
                 IF a > Len(SuffixAlternatives) THEN -1
                 ELSE LET ends == SelectSeq(PatEnds(SuffixAlternatives[a], 1, s, p),
                                            LAMBDA q : WordBoundary(s, q))
                      IN  IF ends # <<>> THEN Head(ends) ELSE Try(a + 1)
         IN  Try(1)

\* re.sub(suffix pattern, '', s): leftmost matches, scanning left to right.
RECURSIVE RemoveSuffixes(_, _)
RemoveSuffixes(s, p) ==
    IF p >= Len(s) THEN <<>>
    ELSE LET q == SuffixMatchEnd(s, p)
         IN  IF q > p THEN RemoveSuffixes(s, q)
             ELSE <<s[p + 1]>> \o RemoveSuffixes(s, p + 1)

\* re.sub(r'[^A-Z0-9\s]', '', s)
RemovePunctuation(s) ==
    SelectSeq(s, LAMBDA c : IsUpperLetter(c) \/ c \in Digits \/ IsSpace(c))

\* re.sub(r'\s+', ' ', s): every run of whitespace becomes one space.
CollapseWhitespace(s) ==
    LET keep == {i \in 1..Len(s) : ~IsSpace(s[i]) \/ i = 1 \/ ~IsSpace(s[i - 1])}
        RECURSIVE Build(_)
        Build(i) ==
            IF i > Len(s) THEN <<>>
            ELSE (IF i \in keep
                  THEN <<IF IsSpace(s[i]) THEN " " ELSE s[i]>>
                  ELSE <<>>) \o Build(i + 1)
    IN  Build(1)

_fuzzy_cluster_key(name) ==
    IF name = <<>> THEN <<>>
    ELSE strip(CollapseWhitespace(RemovePunctuation(
             RemoveSuffixes(strip(upper(name)), 0))))

(***************************************************************************)
(* difflib.SequenceMatcher(None, a, b).ratio()                             *)
(***************************************************************************)

\* Length of the common run of a and b starting at offsets i and j and
\* staying inside a[..ahi) and b[..bhi).
RECURSIVE RunLength(_, _, _, _, _, _)
RunLength(a, b, i, j, ahi, bhi) ==
    IF i < ahi /\ j < bhi /\ a[i + 1] = b[j + 1]
    THEN 1 + RunLength(a, b, i + 1, j + 1, ahi, bhi)
    ELSE 0

\* find_longest_match: <<i, j, k>> with a[i:i+k] = b[j:j+k] inside the
\* ranges, k maximal, then i minimal, then j minimal.
find_longest_match(a, b, alo, ahi, blo, bhi) ==
    LET starts == {t \in (alo..(ahi - 1)) \X (blo..(bhi - 1)) :
                      a[t[1] + 1] = b[t[2] + 1]}
        runs == {<<t[1], t[2], RunLength(a, b, t[1], t[2], ahi, bhi)>> : t \in starts}
        sizes == {r[3] : r \in runs}
    IN  IF runs = {} THEN <<alo, blo, 0>>
        ELSE LET best == CHOOSE k \in sizes : \A l \in sizes : l <= k
                 cand == {r \in runs : r[3] = best}
             IN  CHOOSE c \in cand :
                     \A d \in cand : c[1] < d[1] \/ (c[1] = d[1] /\ c[2] <= d[2])

\* Sum of the sizes of get_matching_blocks(): the longest match, then the
\* pieces to its left and to its right, recursively.
RECURSIVE MatchingSize(_, _, _, _, _, _)
MatchingSize(a, b, alo, ahi, blo, bhi) ==
    LET m == find_longest_match(a, b, alo, ahi, blo, bhi)
        i == m[1]
        j == m[2]
        k == m[3]
    IN  IF k = 0 THEN 0
        ELSE k
             + (IF alo < i /\ blo < j
                THEN MatchingSize(a, b, alo, i, blo, j) ELSE 0)
             + (IF i + k < ahi /\ j + k < bhi
                THEN MatchingSize(a, b, i + k, ahi, j + k, bhi) ELSE 0)

\* ratio() = 2.0 * matches / (len(a) + len(b)) as the pair <<2*matches, length>>.
ratio(a, b) == <<2 * MatchingSize(a, b, 0, Len(a), 0, Len(b)), Len(a) + Len(b)>>

(***************************************************************************)
(* _cluster_entities                                                       *)
(***************************************************************************)

\* Faulty variant of RatioAboveThreshold: `ratio > 0.8`.
ratio_above_lower_threshold(r) == 100 * r[1] > 80 * r[2]

\* Faulty variant of RatioAboveThreshold: `ratio >= 0.85`.
ratio_reaches_threshold(r) == 100 * r[1] >= 85 * r[2]

\* `ratio > 0.85` on r = <<2 * matches, length>>.  The code compares the
\* double nearest to 2*matches/length with the double nearest to 0.85;
\* for lengths far below 2^50 that is the exact comparison
\* 2*matches/length > 85/100 (a quotient that is exactly 17/20 rounds to
\* the very double the literal 0.85 denotes, so it is not above it).
RatioAboveThreshold(r) == 100 * r[1] > 85 * r[2]

\* Faulty variant of first_match: the scan does not stop at the first
\* match, so the last matching cluster wins.
last_match(key_map, key) ==
    LET hits == {i \in 1..Len(key_map) :
                   \/ key = key_map[i].key
                   \/ LET r == ratio(key, key_map[i].key)
                      IN  100 * r[1] > 85 * r[2]}
    IN  IF hits = {} THEN 0
        ELSE CHOOSE i \in hits : \A j \in hits : j <= i

\* key_map is a dict, iterated in insertion order: a sequence of clusters
\* [key |-> normalized key, variants |-> list of original names].
\* The scan `for existing_key in list(key_map.keys())`: index of the first
\* cluster whose key equals `key` or whose ratio with it is above the
\* threshold, 0 if the scan ends without a match.
first_match(key_map, key) ==
    LET hits == {i \in 1..Len(key_map) :
                   \/ key = key_map[i].key
                   \/ RatioAboveThreshold(ratio(key, key_map[i].key))}
    IN  IF hits = {} THEN 0
        ELSE CHOOSE i \in hits : \A j \in hits : i <= j

\* Faulty variant of cluster_add: a name with an empty key is clustered
\* like any other.
cluster_add_keep_empty_keys(key_map, name) ==
    IF name = <<>> THEN key_map
    ELSE LET key == _fuzzy_cluster_key(name)
             i == first_match(key_map, key)
         IN  IF i # 0
             THEN [key_map EXCEPT ![i].variants = Append(@, name)]
             ELSE Append(key_map, [key |-> key, variants |-> <<name>>])

\* Faulty variant of cluster_add: without the `break`, the name is
\* appended to every cluster it matches.
cluster_add_no_break(key_map, name) ==
    IF name = <<>> THEN key_map
    ELSE LET key == _fuzzy_cluster_key(name)
             hits == {i \in 1..Len(key_map) :
                        \/ key = key_map[i].key
                        \/ RatioAboveThreshold(ratio(key, key_map[i].key))}
         IN  IF key = <<>> THEN key_map
             ELSE IF hits # {}
                  THEN [i \in 1..Len(key_map) |->
                          IF i \in hits
                          THEN [key_map[i] EXCEPT !.variants = Append(@, name)]
                          ELSE key_map[i]]
                  ELSE Append(key_map, [key |-> key, variants |-> <<name>>])

\* Faulty variant of cluster_add: the existing clusters are not looked
\* at, every name with a key founds a cluster.
cluster_add_always_new(key_map, name) ==
    IF name = <<>> THEN key_map
    ELSE LET key == _fuzzy_cluster_key(name)
         IN  IF key = <<>> THEN key_map
             ELSE Append(key_map, [key |-> key, variants |-> <<name>>])

\* One iteration of `for name in names`.
cluster_add(key_map, name) ==
    IF name = <<>> THEN key_map
    ELSE LET key == _fuzzy_cluster_key(name)
         IN  IF key = <<>> THEN key_map
             ELSE LET i == first_match(key_map, key)
                  IN  IF i # 0
                      THEN [key_map EXCEPT ![i].variants = Append(@, name)]
                      ELSE Append(key_map, [key |-> key, variants |-> <<name>>])

\* Faulty variant of most_common: among the names with the highest count
\* the last one seen wins.
most_common_last_on_tie(variants) ==
    LET count(v) == Cardinality({i \in 1..Len(variants) : variants[i] = v})
        first(v) == CHOOSE i \in 1..Len(variants) :
                      variants[i] = v /\ \A j \in 1..(i - 1) : variants[j] # v
        top == {v \in {variants[i] : i \in 1..Len(variants)} :
                  \A i \in 1..Len(variants) : count(variants[i]) <= count(v)}
    IN  CHOOSE v \in top : \A w \in top : first(w) <= first(v)

\* Counter(variants).most_common(1)[0][0]: the counter keeps its keys in
\* order of first occurrence and max() returns the first key that attains
\* the highest count.
most_common(variants) ==
    LET count(v) == Cardinality({i \in 1..Len(variants) : variants[i] = v})
        first(v) == CHOOSE i \in 1..Len(variants) :
                      variants[i] = v /\ \A j \in 1..(i - 1) : variants[j] # v
        top == {v \in {variants[i] : i \in 1..Len(variants)} :
                  \A i \in 1..Len(variants) : count(variants[i]) <= count(v)}
    IN  CHOOSE v \in top : \A w \in top : first(v) <= first(w)

\* The empty dict.
EmptyDict == [n \in {} |-> <<>>]

\* `for key, variants in key_map.items(): ... result[v] = canonical`:
\* clusters in insertion order, a later assignment overwriting an earlier.
RECURSIVE build_result(_, _, _)
build_result(key_map, i, result) ==
    IF i > Len(key_map) THEN result
    ELSE LET variants == key_map[i].variants
             canonical == most_common(variants)
             members == {variants[j] : j \in 1..Len(variants)}
         IN  build_result(key_map, i + 1,
                 [n \in DOMAIN result \cup members |->
                     IF n \in members THEN canonical ELSE result[n]])

\* The first loop over a whole list of names.
RECURSIVE build_key_map(_, _, _)
build_key_map(names, i, key_map) ==
    IF i > Len(names) THEN key_map
    ELSE build_key_map(names, i + 1, cluster_add(key_map, names[i]))

_cluster_entities(names) ==
    build_result(build_key_map(names, 1, <<>>), 1, EmptyDict)

(***************************************************************************)
(* Values shared by the SQL query and the Python code                      *)
(***************************************************************************)

\* SQL NULL / Python None: a tuple that is not a sequence of characters.
NULL == <<"NULL">>

\* Python truthiness of an optional text: neither None nor ''.
Truthy(v) == v # NULL /\ v # <<>>

\* `v or ''`
OrEmpty(v) == IF Truthy(v) THEN v ELSE <<>>

\* The printable ASCII characters in code-point order (the double quote,
\* the backslash and the grave accent, which no text of the model contains,
\* are left out).
Ascii == Chars(" !#$%&'()*+,-./0123456789:;<=>?@ABCDEFGHIJKLMNOPQRSTUVWXYZ[]^_abcdefghijklmnopqrstuvwxyz{|}~")
Ord(c) == CHOOSE i \in 1..Len(Ascii) : Ascii[i] = c

\* a < b in Python's ordering of str.
RECURSIVE StrLess(_, _)
StrLess(a, b) ==
    IF b = <<>> THEN FALSE
    ELSE IF a = <<>> THEN TRUE
    ELSE IF Head(a) = Head(b) THEN StrLess(Tail(a), Tail(b))
    ELSE Ord(Head(a)) < Ord(Head(b))

\* Faulty variant of sorted: descending order.
RECURSIVE sorted_descending(_)
sorted_descending(S) ==
    IF S = {} THEN <<>>
    ELSE LET m == CHOOSE a \in S : \A b \in S \ {a} : StrLess(b, a)
         IN  <<m>> \o sorted_descending(S \ {m})

\* sorted(S) for a set S of texts.
RECURSIVE sorted(_)
sorted(S) ==
    IF S = {} THEN <<>>
    ELSE LET m == CHOOSE a \in S : \A b \in S \ {a} : StrLess(a, b)
         IN  <<m>> \o sorted(S \ {m})

\* str.title(): a letter that follows a non-letter is uppercased, a letter
\* that follows a letter is lowercased.
title(s) ==
    LET letter(c) == IsUpperLetter(c) \/ IsLowerLetter(c)
    IN  [i \in 1..Len(s) |->
            IF ~letter(s[i]) THEN s[i]
            ELSE IF i > 1 /\ letter(s[i - 1]) THEN ToLower(s[i])
            ELSE ToUpper(s[i])]

(***************************************************************************)
(* The traversal query of get_owner_network (lines 1249-1319)              *)
(***************************************************************************)

\* PostgreSQL TRIM(x): strips spaces only.
sql_trim(s) ==
    LET keep == {i \in 1..Len(s) : s[i] # " "}
    IN  IF keep = {} THEN <<>>
        ELSE LET lo == CHOOSE i \in keep : \A j \in keep : i <= j
                 hi == CHOOSE i \in keep : \A j \in keep : j <= i
             IN  SubSeq(s, lo, hi)

\* UPPER(TRIM(x)); NULL for NULL.
sql_upper_trim(v) == IF v = NULL THEN NULL ELSE upper(sql_trim(v))

\* s LIKE p from positions i and j, compared case-insensitively: % is any
\* run of characters, _ any one character, a backslash quotes the next
\* pattern character.
RECURSIVE like(_, _, _, _)
like(s, i, p, j) ==
    IF j > Len(p) THEN i > Len(s)
    ELSE IF p[j] = "%"
         THEN like(s, i, p, j + 1) \/ (i <= Len(s) /\ like(s, i + 1, p, j))
    ELSE IF p[j] = "_"
         THEN i <= Len(s) /\ like(s, i + 1, p, j + 1)
    ELSE IF p[j] = "\\" /\ j < Len(p)
         THEN /\ i <= Len(s)
              /\ ToLower(s[i]) = ToLower(p[j + 1])
              /\ like(s, i + 1, p, j + 2)
    ELSE /\ i <= Len(s)
         /\ ToLower(s[i]) = ToLower(p[j])
         /\ like(s, i + 1, p, j + 1)

\* `v ILIKE p` is true (NULL ILIKE p is never true).
ilike(v, p) == v # NULL /\ like(v, 1, p, 1)

\* f"%{x}%"
Contains(x) == <<"%">> \o x \o <<"%">>

\* `c.type != 'SiteManager'` is true (NULL != 'SiteManager' is never true).
NotSiteManager(c) == c.type # NULL /\ c.type # Chars("SiteManager")

\* seed_where (lines 1233-1247): the corporation name contains the name,
\* or, with two or more tokens, first and last name contain the first and
\* the last token, else the last name contains the name.
seed_where(c, name) ==
    LET name_parts == split(strip(name))
    IN  \/ ilike(c.corporationname, Contains(name))
        \/ IF Len(name_parts) >= 2
           THEN /\ ilike(c.firstname, Contains(name_parts[1]))
                /\ ilike(c.lastname, Contains(name_parts[Len(name_parts)]))
           ELSE ilike(c.lastname, Contains(name))

\* Faulty variant of seed_registrations: the role filter is missing.
seed_registrations_any_role(contacts, name) ==
    {c.registrationid : c \in {d \in contacts : seed_where(d, name)}}

\* Faulty variant of seed_registrations: the name condition is missing.
seed_registrations_any_name(contacts, name) ==
    {c.registrationid : c \in {d \in contacts : NotSiteManager(d)}}

\* CTE seed_registrations.
seed_registrations(contacts, name) ==
    {c.registrationid : c \in {d \in contacts : seed_where(d, name) /\ NotSiteManager(d)}}

\* Bins of a set of registration ids (`r.bin IS NOT NULL`).
bins_of(registrations, regids) ==
    {r.bin : r \in {q \in registrations : q.registrationid \in regids /\ q.bin # NULL}}

\* CTE seed_bins.
seed_bins(contacts, registrations, name) ==
    bins_of(registrations, seed_registrations(contacts, name))

\* Contacts (not site managers) on a registration of one of the bins.
contacts_on(contacts, registrations, bins) ==
    {c \in contacts :
        /\ NotSiteManager(c)
        /\ \E r \in registrations :
              r.registrationid = c.registrationid /\ r.bin # NULL /\ r.bin \in bins}

\* CTE hop1_contacts.
hop1_contacts(contacts, registrations, name) ==
    contacts_on(contacts, registrations, seed_bins(contacts, registrations, name))

\* CTE hop1_person_keys.
hop1_person_keys(hop1) ==
    {<<sql_upper_trim(c.firstname), sql_upper_trim(c.lastname)>> :
        c \in {d \in hop1 : /\ d.firstname # NULL /\ d.firstname # <<>>
                            /\ d.lastname # NULL /\ d.lastname # <<>>}}

\* CTE hop1_entity_keys.
hop1_entity_keys(hop1) ==
    {sql_upper_trim(c.corporationname) :
        c \in {d \in hop1 : d.corporationname # NULL /\ d.corporationname # <<>>}}

\* Faulty variant of hop2_registrations: the registrations found from the
\* hop-1 keys are searched once more with the keys of the contacts found.
hop2_registrations_third_hop(contacts, hop1) ==
    LET found(from) ==
            {d \in contacts :
                /\ NotSiteManager(d)
                /\ \/ /\ d.firstname # NULL /\ d.lastname # NULL
                      /\ <<sql_upper_trim(d.firstname), sql_upper_trim(d.lastname)>>
                             \in hop1_person_keys(from)
                   \/ /\ d.corporationname # NULL
                      /\ sql_upper_trim(d.corporationname) \in hop1_entity_keys(from)}
    IN  {c.registrationid : c \in found(hop1) \cup found(found(hop1))}

\* CTE hop2_registrations.
hop2_registrations(contacts, hop1) ==
    {c.registrationid :
        c \in {d \in contacts :
                 /\ NotSiteManager(d)
                 /\ \/ /\ d.firstname # NULL /\ d.lastname # NULL
                       /\ <<sql_upper_trim(d.firstname), sql_upper_trim(d.lastname)>>
                              \in hop1_person_keys(hop1)
                    \/ /\ d.corporationname # NULL
                       /\ sql_upper_trim(d.corporationname) \in hop1_entity_keys(hop1)}}

\* LIMIT of all_network_bins.
BinLimit == 500

\* Largest number of fetched rows of which every order is followed.
MaxPermuted == 4

\* The subsets of S with k elements.
RECURSIVE Combinations(_, _)
Combinations(S, k) ==
    IF k = 0 THEN {{}}
    ELSE UNION {{D \cup {x} : D \in Combinations(S \ {x}, k - 1)} : x \in S}

\* Faulty variant of all_network_bins: the LIMIT is missing.
all_network_bins_unlimited(contacts, registrations, name) ==
    LET hop1 == hop1_contacts(contacts, registrations, name)
        regids == seed_registrations(contacts, name)
                      \cup hop2_registrations(contacts, hop1)
    IN  {bins_of(registrations, regids)}

\* CTE all_network_bins: the results the query may produce.  Without an
\* ORDER BY, LIMIT keeps any BinLimit of the distinct bins, that is, it
\* drops any Cardinality(bins) - BinLimit of them.
all_network_bins(contacts, registrations, name) ==
    LET hop1 == hop1_contacts(contacts, registrations, name)
        regids == seed_registrations(contacts, name)
                      \cup hop2_registrations(contacts, hop1)
        bins == bins_of(registrations, regids)
    IN  IF Cardinality(bins) <= BinLimit THEN {bins}
        ELSE {bins \ D : D \in Combinations(bins, Cardinality(bins) - BinLimit)}

\* The final SELECT for one choice of all_network_bins: one row per
\* distinct (contact, registration, bin) of all_network_contacts, LEFT
\* JOINed to building_scores (NULL attributes when the bin has no score
\* row).  score_grade, open_class_c, latitude and longitude travel with
\* address and borough and are left out.
result_rows(contacts, registrations, scores, bins) ==
    LET joined == {<<c, r>> \in contacts_on(contacts, registrations, bins) \X registrations :
                      r.registrationid = c.registrationid /\ r.bin # NULL /\ r.bin \in bins}
        row(c, r, a, b) ==
            [registrationcontactid |-> c.registrationcontactid,
             type |-> c.type,
             contactdescription |-> c.contactdescription,
             corporationname |-> c.corporationname,
             firstname |-> c.firstname,
             lastname |-> c.lastname,
             bin |-> r.bin,
             address |-> a,
             borough |-> b]
    IN  {row(t[1], t[2], NULL, NULL) :
            t \in {u \in joined : ~\E bs \in scores : bs.bin = u[2].bin}}
        \cup {row(t[1][1], t[1][2], t[2].address, t[2].borough) :
                t \in {u \in joined \X scores : u[2].bin = u[1][2].bin}}

\* All orders of the elements of a set.
Orderings(S) ==
    {f \in [1..Cardinality(S) -> S] : \A i, j \in 1..Cardinality(S) : f[i] = f[j] => i = j}

\* The rows of S by ascending registrationcontactid (S holds one row per
\* contact: a contact has one registration and a registration one bin).
ByContactId(S) ==
    LET ids == {r.registrationcontactid : r \in S}
        lo == CHOOSE i \in ids : \A j \in ids : i <= j
        hi == CHOOSE i \in ids : \A j \in ids : j <= i
        seq == SelectSeq([k \in 1..(hi - lo + 1) |-> lo + k - 1], LAMBDA id : id \in ids)
    IN  IF S = {} THEN <<>>
        ELSE [k \in 1..Len(seq) |-> CHOOSE r \in S : r.registrationcontactid = seq[k]]

\* The orders in which cur.fetchall() is taken to return the rows S: every
\* order for up to MaxPermuted rows, and for more rows the order of the
\* contact ids and its reverse.
FetchOrders(S) ==
    IF Cardinality(S) <= MaxPermuted THEN Orderings(S)
    ELSE LET up == ByContactId(S)
         IN  {up, [k \in 1..Len(up) |-> up[Len(up) + 1 - k]]}

(***************************************************************************)
(* Graph assembly of get_owner_network (lines 1328-1438)                   *)
(***************************************************************************)

\* Index of the entry with the given key in an insertion-ordered dict
\* (a sequence of entries with a field `key`), 0 if the key is absent.
IndexOf(dict, key) ==
    IF \E i \in 1..Len(dict) : dict[i].key = key
    THEN CHOOSE i \in 1..Len(dict) : dict[i].key = key
    ELSE 0

\* f"person:{fn}_{ln}", f"entity:{canonical.replace(' ', '_')}",
\* f"building:{bin_val}"
person_id(fn, ln) == Chars("person:") \o fn \o <<"_">> \o ln
entity_id(canonical) == Chars("entity:") \o replace(canonical, " ", "_")
building_id(bin_val) == Chars("building:") \o bin_val

\* Lines 1335-1337: the set all_corpnames.
all_corpnames(rows) ==
    {upper(strip(rows[i].corporationname)) :
        i \in {j \in 1..Len(rows) : Truthy(rows[j].corporationname)}}

\* Faulty variant of canonical_of: a name the clusterer left out is
\* labelled with its CanonicalKey.
canonical_of_fallback_key(corp_canonical, corp) ==
    IF corp \in DOMAIN corp_canonical THEN corp_canonical[corp]
    ELSE _fuzzy_cluster_key(corp)

\* corp_canonical.get(corp, corp)
canonical_of(corp_canonical, corp) ==
    IF corp \in DOMAIN corp_canonical THEN corp_canonical[corp] ELSE corp

\* Lines 1346-1354: `if bin_val and bin_val not in buildings`.
track_building(buildings, r) ==
    IF Truthy(r.bin) /\ IndexOf(buildings, r.bin) = 0
    THEN Append(buildings, [key |-> r.bin,
                            address |-> OrEmpty(r.address),
                            borough |-> OrEmpty(r.borough)])
    ELSE buildings

\* Faulty variant of track_person: the `if key not in people` test is
\* missing, so every row starts a new entry.
track_person_always_new(people, fn, ln, contact_desc, r) ==
    IF fn = <<>> \/ ln = <<>> THEN people
    ELSE Append(people, [key |-> <<fn, ln>>,
                         roles |-> {contact_desc},
                         bins |-> IF Truthy(r.bin) THEN {r.bin} ELSE {}])

\* Faulty variant of track_person: the role of a row is recorded only
\* when the row creates the entry.
track_person_first_role(people, fn, ln, contact_desc, r) ==
    IF fn = <<>> \/ ln = <<>> THEN people
    ELSE LET known == IndexOf(people, <<fn, ln>>) # 0
             fresh == IF known THEN people
                      ELSE Append(people, [key |-> <<fn, ln>>, roles |-> {contact_desc},
                                           bins |-> {}])
             i == IndexOf(fresh, <<fn, ln>>)
         IN  [fresh EXCEPT ![i].bins = IF Truthy(r.bin) THEN @ \cup {r.bin} ELSE @]

\* Lines 1362-1368: upsert of people[(fn, ln)].
track_person(people, fn, ln, contact_desc, r) ==
    IF fn = <<>> \/ ln = <<>> THEN people
    ELSE LET fresh == IF IndexOf(people, <<fn, ln>>) = 0
                      THEN Append(people, [key |-> <<fn, ln>>, roles |-> {}, bins |-> {}])
                      ELSE people
             i == IndexOf(fresh, <<fn, ln>>)
         IN  [fresh EXCEPT ![i].roles = @ \cup {contact_desc},
                           ![i].bins = IF Truthy(r.bin) THEN @ \cup {r.bin} ELSE @]

\* Faulty variant of track_entity: the dict is keyed by the raw corporate
\* name instead of the canonical one.
track_entity_by_raw_name(entities, corp, canonical, r) ==
    IF corp = <<>> THEN entities
    ELSE LET fresh == IF IndexOf(entities, corp) = 0
                      THEN Append(entities, [key |-> corp, bins |-> {}])
                      ELSE entities
             i == IndexOf(fresh, corp)
         IN  [fresh EXCEPT ![i].bins = IF Truthy(r.bin) THEN @ \cup {r.bin} ELSE @]

\* Lines 1373-1378: upsert of entities[canonical].
track_entity(entities, corp, canonical, r) ==
    IF corp = <<>> THEN entities
    ELSE LET fresh == IF IndexOf(entities, canonical) = 0
                      THEN Append(entities, [key |-> canonical, bins |-> {}])
                      ELSE entities
             i == IndexOf(fresh, canonical)
         IN  [fresh EXCEPT ![i].bins = IF Truthy(r.bin) THEN @ \cup {r.bin} ELSE @]

Edge(s, t, rel) == [source |-> s, target |-> t, relation |-> rel]

\* Faulty variant of row_edges: the person-entity edge points at the raw
\* corporate name instead of the canonical one.
row_edges_raw_target(fn, ln, corp, canonical, contact_desc, r) ==
    (IF fn # <<>> /\ ln # <<>> /\ Truthy(r.bin)
     THEN <<Edge(person_id(fn, ln), building_id(r.bin), contact_desc)>> ELSE <<>>)
    \o (IF corp # <<>> /\ Truthy(r.bin)
        THEN <<Edge(entity_id(canonical), building_id(r.bin), contact_desc)>> ELSE <<>>)
    \o (IF corp # <<>> /\ fn # <<>> /\ ln # <<>>
        THEN <<Edge(person_id(fn, ln), entity_id(corp), contact_desc)>> ELSE <<>>)

\* Faulty variant of row_edges: the person-entity edge is labelled with
\* the contact type, whatever the description.
row_edges_type_relation(fn, ln, corp, canonical, contact_desc, r) ==
    (IF fn # <<>> /\ ln # <<>> /\ Truthy(r.bin)
     THEN <<Edge(person_id(fn, ln), building_id(r.bin), contact_desc)>> ELSE <<>>)
    \o (IF corp # <<>> /\ Truthy(r.bin)
        THEN <<Edge(entity_id(canonical), building_id(r.bin), contact_desc)>> ELSE <<>>)
    \o (IF corp # <<>> /\ fn # <<>> /\ ln # <<>>
        THEN <<Edge(person_id(fn, ln), entity_id(canonical), OrEmpty(r.type))>> ELSE <<>>)

\* The edges one row appends, in order (lines 1370, 1379, 1383).
row_edges(fn, ln, corp, canonical, contact_desc, r) ==
    (IF fn # <<>> /\ ln # <<>> /\ Truthy(r.bin)
     THEN <<Edge(person_id(fn, ln), building_id(r.bin), contact_desc)>> ELSE <<>>)
    \o (IF corp # <<>> /\ Truthy(r.bin)
        THEN <<Edge(entity_id(canonical), building_id(r.bin), contact_desc)>> ELSE <<>>)
    \o (IF corp # <<>> /\ fn # <<>> /\ ln # <<>>
        THEN <<Edge(person_id(fn, ln), entity_id(canonical), contact_desc)>> ELSE <<>>)

\* One iteration of `for r in rows` (lines 1342-1383) on the accumulators.
process_row(acc, corp_canonical, r) ==
    LET fn == upper(strip(OrEmpty(r.firstname)))
        ln == upper(strip(OrEmpty(r.lastname)))
        corp == upper(strip(OrEmpty(r.corporationname)))
        contact_desc == IF Truthy(r.contactdescription) THEN r.contactdescription
                        ELSE OrEmpty(r.type)
        canonical == canonical_of(corp_canonical, corp)
    IN  [people |-> track_person(acc.people, fn, ln, contact_desc, r),
         entities |-> track_entity(acc.entities, corp, canonical, r),
         buildings |-> track_building(acc.buildings, r),
         edges |-> acc.edges \o row_edges(fn, ln, corp, canonical, contact_desc, r)]

\* `for r in rows` over rows[lo..hi], first to last: the first half of the
\* range is folded into the accumulators, then the second half.
RECURSIVE process_rows(_, _, _, _, _)
process_rows(rows, lo, hi, corp_canonical, acc) ==
    IF lo > hi THEN acc
    ELSE IF lo = hi THEN process_row(acc, corp_canonical, rows[lo])
    ELSE LET mid == (lo + hi) \div 2
             first == process_rows(rows, lo, mid, corp_canonical, acc)
         IN  IF Len(first.edges) >= Len(acc.edges)
             THEN process_rows(rows, mid + 1, hi, corp_canonical, first)
             ELSE first

\* Faulty variant of dedup_edges: the key leaves out the relation.
RECURSIVE dedup_edges_by_endpoints(_, _, _)
dedup_edges_by_endpoints(edges, i, unique_edges) ==
    IF i > Len(edges) THEN unique_edges
    ELSE dedup_edges_by_endpoints(edges, i + 1,
            IF \E j \in 1..Len(unique_edges) :
                   /\ unique_edges[j].source = edges[i].source
                   /\ unique_edges[j].target = edges[i].target
            THEN unique_edges
            ELSE Append(unique_edges, edges[i]))

\* Lines 1386-1392: keep the first edge of every (source, target, relation).
RECURSIVE dedup_edges(_, _, _)
dedup_edges(edges, i, unique_edges) ==
    IF i > Len(edges) THEN unique_edges
    ELSE dedup_edges(edges, i + 1,
            IF \E j \in 1..Len(unique_edges) :
                   /\ unique_edges[j].source = edges[i].source
                   /\ unique_edges[j].target = edges[i].target
                   /\ unique_edges[j].relation = edges[i].relation
            THEN unique_edges
            ELSE Append(unique_edges, edges[i]))

\* Lines 1395-1424: people, then entities, then buildings, each in
\* insertion order.
build_nodes(acc) ==
    [i \in 1..Len(acc.people) |->
        [id |-> person_id(acc.people[i].key[1], acc.people[i].key[2]),
         type |-> "person",
         label |-> title(acc.people[i].key[1]) \o <<" ">> \o title(acc.people[i].key[2]),
         roles |-> sorted(acc.people[i].roles),
         building_count |-> Cardinality(acc.people[i].bins)]]
    \o [i \in 1..Len(acc.entities) |->
        [id |-> entity_id(acc.entities[i].key),
         type |-> "entity",
         label |-> title(acc.entities[i].key),
         building_count |-> Cardinality(acc.entities[i].bins)]]
    \o [i \in 1..Len(acc.buildings) |->
        [id |-> building_id(acc.buildings[i].key),
         type |-> "building",
         label |-> acc.buildings[i].address,
         address |-> acc.buildings[i].address,
         borough |-> acc.buildings[i].borough]]

\* Line 1326: the response when no row came back.
empty_response(name) ==
    [center |-> name, nodes |-> <<>>, edges |-> <<>>,
     stats |-> [total_buildings |-> 0, total_people |-> 0,
                total_entities |-> 0, boroughs |-> <<>>]]

\* Lines 1426-1438: the response built from the accumulators.
graph_response(name, acc) ==
    [center |-> upper(name),
     nodes |-> build_nodes(acc),
     edges |-> dedup_edges(acc.edges, 1, <<>>),
     stats |-> [total_buildings |-> Len(acc.buildings),
                total_people |-> Len(acc.people),
                total_entities |-> Len(acc.entities),
                boroughs |-> sorted({acc.buildings[i].borough :
                                i \in {j \in 1..Len(acc.buildings) :
                                         acc.buildings[j].borough # <<>>}})]]

(***************************************************************************)
(* Inputs                                                                  *)
(***************************************************************************)

\* Longest list of names handed to _cluster_entities on its own.
MaxNames == 3

\* Raw corporate names.  Keys: MARTIN, MARTINS, ARTINS, MARTIN, "", two
\* twenty-character keys that share exactly seventeen characters (ratio
\* 34/40), and the first of these with one more letter; the empty name is
\* the last.
ClusterNames == {
    Chars("MARTIN REALTY LLC"),
    Chars("MARTINS REALTY"),
    Chars("ARTINS CORP"),
    Chars("Martin Realty, Inc."),
    Chars("L.L.C."),
    Chars("ONE HUNDRED BROADWAY LLC"),
    Chars("SIX HUNDRED BROADWAY LLC"),
    Chars("ONE HUNDRED BROADWAYS LLC"),
    <<>> }

SeqsUpTo(S, n) == UNION {[1..k -> S] : k \in 0..n}

\* Most rows of hpd_contacts in a database.
MaxContacts == 3

Contact(id, reg, type, desc, corp, fn, ln) ==
    [registrationcontactid |-> id, registrationid |-> reg, type |-> type,
     contactdescription |-> desc, corporationname |-> corp,
     firstname |-> fn, lastname |-> ln]

\* The rows hpd_contacts is drawn from.
ContactPool == {
    Contact(1, "R1", Chars("CorporateOwner"), NULL,
            Chars("ACME HOLDINGS LLC"), NULL, NULL),
    Contact(2, "R2", Chars("CorporateOwner"), NULL,
            Chars("Acme Holdings Inc "), <<>>, <<>>),
    Contact(3, "R1", Chars("Agent"), NULL,
            Chars("ACME HOLDINGS LLC"), Chars("JOHN"), Chars("DOE")),
    Contact(4, "R3", Chars("Agent"), <<>>,
            NULL, Chars("John"), Chars("Doe ")),
    Contact(5, "R2", Chars("SiteManager"), NULL,
            Chars("ZENITH REALTY"), Chars("SAM"), Chars("MANN")),
    Contact(6, "R2", NULL, NULL,
            NULL, Chars("JANE"), Chars("ROE")),
    Contact(7, "R3", Chars("HeadOfficer"), Chars("Head Officer"),
            Chars("ZENITH REALTY"), Chars("JOHN"), Chars("DOE")),
    Contact(8, "R4", Chars("Officer"), NULL,
            Chars("ZENITH REALTY"), Chars("JANE"), Chars("ROE")),
    Contact(9, "R6", Chars("Officer"), NULL,
            Chars("ACME HOLDINGS INC"), Chars("john"), Chars("DOE")) }

\* Rows with names at the edges of the key and id derivations: corporate
\* names made of a legal suffix only, names that differ in a space against
\* an underscore, a role that is the empty text, and one person under
\* three roles.  NameAnchor is the contact the seed finds.
NameAnchor ==
    Contact(20, "R1", Chars("Owner"), NULL, NULL, Chars("JANE"), Chars("SEED"))
NamePool == {
    Contact(21, "R1", Chars("Owner"), NULL,
            Chars("L.L.C."), Chars("A_B"), Chars("C")),
    Contact(22, "R3", Chars("Agent"), Chars("Head Officer"),
            Chars("llc"), Chars("A"), Chars("B_C")),
    Contact(23, "R2", <<>>, NULL,
            Chars("A B"), Chars("a"), Chars("B_C")),
    Contact(24, "R2", Chars("Officer"), <<>>,
            Chars("A_B"), NULL, Chars("C")),
    Contact(25, "R6", Chars("Owner"), NULL,
            Chars("A B LLC"), Chars("jane"), Chars("Seed ")) }

\* A portfolio of one building more than all_network_bins keeps: LargeN
\* registrations, each of a building of its own, each with one owner of
\* the same last name and no first or corporate name.
LargeN == BinLimit + 1
LargeRegistrations ==
    {[registrationid |-> "L" \o ToString(i), bin |-> Chars(ToString(i))] : i \in 1..LargeN}
LargeContacts ==
    {Contact(1000 + i, "L" \o ToString(i), Chars("Owner"), NULL, NULL, NULL, Chars("LARGE")) :
        i \in 1..LargeN}

\* hpd_registrations: R1 and R3 register the same building, R4 has an
\* empty bin, R5 none and R6 a third building; then the large portfolio.
hpd_registrations == {
    [registrationid |-> "R1", bin |-> Chars("1001")],
    [registrationid |-> "R2", bin |-> Chars("1002")],
    [registrationid |-> "R3", bin |-> Chars("1001")],
    [registrationid |-> "R4", bin |-> <<>>],
    [registrationid |-> "R5", bin |-> NULL],
    [registrationid |-> "R6", bin |-> Chars("1003")] }
    \cup LargeRegistrations

\* building_scores: bin 1002 has no row.
building_scores == {
    [bin |-> Chars("1001"), address |-> Chars("10 MAIN ST"), borough |-> Chars("BROOKLYN")],
    [bin |-> Chars("1003"), address |-> Chars("5 ELM ST"), borough |-> Chars("BRONX")] }

\* Longest text handed to _fuzzy_cluster_key on its own, the characters
\* it is made of, and how often the function is applied in a row.
MaxKeyLen == 4
KeyAlphabet == {"A", "l", "P", "C", "-", ".", " "}
MaxKeyCalls == 2

\* Query(..., min_length=2), line 1228.
MinLength == 2

\* The names a request asks for: names of the pool, a name nobody has,
\* and the empty name, two spaces and two percent signs.
SeedNames == {
    Chars("Acme"),
    Chars("john doe"),
    Chars("ZENITH"),
    Chars("MANN"),
    Chars("NOBODY"),
    <<>>,
    Chars("  "),
    Chars("%%") }

\* The names asked for on the rows of NamePool.
NameSeedNames == {Chars("seed"), Chars("NOBODY"), Chars("S")}

\* The names asked for on the large portfolio.
LargeSeedNames == {Chars("LARGE"), Chars("NOBODY"), Chars("L")}

(***************************************************************************)
(* State                                                                   *)
(***************************************************************************)

VARIABLES
    names,          \* _cluster_entities: the argument
    pos,            \* _cluster_entities: number of names the first loop has taken
    key_map,        \* _cluster_entities: the clusters built so far
    result,         \* _cluster_entities: the returned dict
    cpc,            \* _cluster_entities: "loop" | "build" | "done"
    hpd_contacts,   \* the table hpd_contacts
    name,           \* get_owner_network: the argument
    pc,             \* get_owner_network: "start" | "query" | "fetched" |
                    \*   "assemble" | "done" | "raised" | "rejected"
    conn,           \* the database connection: "none" | "open" | "closed"
    rows,           \* cur.fetchall()
    corpnames,      \* list(all_corpnames)
    corp_canonical, \* the dict _cluster_entities returned
    acc,            \* people, entities, buildings and edges
    response,       \* the returned value
    exc,            \* the database call that raised: "none" | "connect" |
                    \*   "execute" | "fetchall"
    kname,          \* _fuzzy_cluster_key: the argument
    kkey,           \* _fuzzy_cluster_key: the returned value
    kcalls,         \* _fuzzy_cluster_key: calls made on this text so far
    kpc,            \* _fuzzy_cluster_key: "call" | "done"
    SCRAPE_STATUS,  \* bisweb_scraper.SCRAPE_STATUS[bin_number]
    details,        \* complaint numbers of the bin in bisweb_complaint_details
    fresh,          \* MAX(scraped_at) of these rows is less than 7 days old
    req,            \* get_enriched_complaints: position and response per request
    thr,            \* bg_scrape: position, total and results per started thread
    since_done      \* a scrape ended "done" and 7 days have not passed since

cluster_vars == <<names, pos, key_map, result, cpc>>
network_vars == <<hpd_contacts, name, pc, conn, rows, corpnames, corp_canonical,
                  acc, response, exc>>
key_vars == <<kname, kkey, kcalls, kpc>>
scrape_vars == <<SCRAPE_STATUS, details, fresh, req, thr, since_done>>
vars == <<names, pos, key_map, result, cpc, hpd_contacts, name, pc, conn, rows,
          corpnames, corp_canonical, acc, response, exc, kname, kkey, kcalls, kpc,
          SCRAPE_STATUS, details, fresh, req, thr, since_done>>

\* Lines 1329-1332: the empty accumulators.
EmptyAcc == [people |-> <<>>, entities |-> <<>>, buildings |-> <<>>, edges |-> <<>>]

\* No call of _cluster_entities is being followed.
ClusterIdle ==
    /\ names = <<>>
    /\ pos = 0
    /\ key_map = <<>>
    /\ result = EmptyDict
    /\ cpc = "idle"

\* No request is being followed.
NetworkIdle ==
    /\ hpd_contacts = {}
    /\ name = <<>>
    /\ pc = "idle"
    /\ conn = "none"
    /\ rows = <<>>
    /\ corpnames = <<>>
    /\ corp_canonical = EmptyDict
    /\ acc = EmptyAcc
    /\ response = NULL
    /\ exc = "none"

\* No call of _fuzzy_cluster_key on its own is being followed.
KeyIdle ==
    /\ kname = <<>>
    /\ kkey = NULL
    /\ kcalls = 0
    /\ kpc = "idle"

\* Most concurrent requests for the building and most complaints the
\* site lists for it.
MaxRequests == 2
MaxComplaints == 2
Requests == 1..MaxRequests

\* bisweb_scraper.py line 176: the results are saved every 25 details.
SaveEvery == 25

\* An entry of SCRAPE_STATUS; status "absent" stands for no entry.
Status(st, progress, total) == [status |-> st, progress |-> progress, total |-> total]

ScrapeIdle ==
    /\ SCRAPE_STATUS = Status("absent", 0, 0)
    /\ details = {}
    /\ fresh = FALSE
    /\ req = <<>>
    /\ thr = <<>>
    /\ since_done = FALSE

(***************************************************************************)
(* get_enriched_complaints and the background scrape, for one building     *)
(***************************************************************************)

\* The table holds no row of the building, or rows of either age.
ScrapeInit ==
    /\ SCRAPE_STATUS = Status("absent", 0, 0)
    /\ details \in SUBSET (1..MaxComplaints)
    /\ fresh \in (IF details = {} THEN {FALSE} ELSE BOOLEAN)
    /\ req = [r \in Requests |-> [pc |-> "arrive", status |-> "none", data |-> {},
                                  late |-> FALSE]]
    /\ thr = [r \in Requests |-> [pc |-> "none", total |-> 0, i |-> 0, results |-> {}]]
    /\ since_done = FALSE
    /\ ClusterIdle
    /\ NetworkIdle
    /\ KeyIdle

\* get_cached (bisweb_scraper.py lines 50-71): the rows, when there are
\* rows and the newest is less than 7 days old; else None.
CacheFresh == details # {} /\ fresh

\* main.py lines 2225-2228: cached = get_cached(bin_number); a fresh cache
\* is returned with status "done".
ReqGetCached(r) ==
    /\ req[r].pc = "arrive"
    /\ req' = [req EXCEPT ![r] =
                  IF CacheFresh
                  THEN [pc |-> "returned", status |-> "done", data |-> details,
                        late |-> since_done]
                  ELSE [@ EXCEPT !.pc = "check", !.late = since_done]]
    /\ UNCHANGED <<SCRAPE_STATUS, details, fresh, thr, since_done>>
    /\ UNCHANGED <<cluster_vars, network_vars, key_vars>>

\* main.py lines 2231-2234: a scrape in progress is reported.
ReqCheckStatus(r) ==
    /\ req[r].pc = "check"
    /\ req' = [req EXCEPT ![r] =
                  IF SCRAPE_STATUS.status = "scraping"
                  THEN [@ EXCEPT !.pc = "returned", !.status = "scraping"]
                  ELSE [@ EXCEPT !.pc = "start"]]
    /\ UNCHANGED <<SCRAPE_STATUS, details, fresh, thr, since_done>>
    /\ UNCHANGED <<cluster_vars, network_vars, key_vars>>

\* main.py lines 2237-2245: the thread is started and "scraping" returned.
ReqStartThread(r) ==
    /\ req[r].pc = "start"
    /\ thr' = [thr EXCEPT ![r].pc = "begin"]
    /\ req' = [req EXCEPT ![r].pc = "returned", ![r].status = "scraping"]
    /\ UNCHANGED <<SCRAPE_STATUS, details, fresh, since_done>>
    /\ UNCHANGED <<cluster_vars, network_vars, key_vars>>

\* bisweb_scraper.py lines 86-89: after the import and ensure_table(), the
\* thread enters its status.
ThreadBegin(t) ==
    /\ thr[t].pc = "begin"
    /\ SCRAPE_STATUS' = Status("scraping", 0, 0)
    /\ thr' = [thr EXCEPT ![t].pc = "list"]
    /\ UNCHANGED <<details, fresh, req, since_done>>
    /\ UNCHANGED <<cluster_vars, network_vars, key_vars>>

\* bisweb_scraper.py lines 92-134: the list pages give the complaints of
\* the building (none when the site lists none or the page is blocked).
ThreadList(t) ==
    /\ thr[t].pc = "list"
    /\ \E total \in 0..MaxComplaints :
          /\ thr' = [thr EXCEPT ![t].pc = "detail", ![t].total = total]
          /\ SCRAPE_STATUS' = Status("scraping", 0, total)
    /\ UNCHANGED <<details, fresh, req, since_done>>
    /\ UNCHANGED <<cluster_vars, network_vars, key_vars>>

\* save_results (bisweb_scraper.py lines 269-301): nothing for no
\* results, else the rows are upserted with scraped_at = NOW().
saved_details(results) == IF results = {} THEN details ELSE details \cup results
saved_fresh(results) == IF results = {} THEN fresh ELSE TRUE

\* bisweb_scraper.py lines 139-178: one detail page.  A blocked page
\* leaves no result and no progress; any other page, read or failed,
\* leaves a result, the progress is written into the entry at hand, and
\* every SaveEvery-th detail saves the results so far.
ThreadDetail(t) ==
    /\ thr[t].pc = "detail"
    /\ thr[t].i < thr[t].total
    /\ \/ /\ thr' = [thr EXCEPT ![t].i = @ + 1]
          /\ UNCHANGED <<SCRAPE_STATUS, details, fresh>>
       \/ LET results == thr[t].results \cup {thr[t].i + 1}
              save == (thr[t].i + 1) % SaveEvery = 0
          IN  /\ thr' = [thr EXCEPT ![t].i = @ + 1, ![t].results = results]
              /\ SCRAPE_STATUS' = [SCRAPE_STATUS EXCEPT !.progress = thr[t].i + 1]
              /\ details' = IF save THEN saved_details(results) ELSE details
              /\ fresh' = IF save THEN saved_fresh(results) ELSE fresh
    /\ UNCHANGED <<req, since_done>>
    /\ UNCHANGED <<cluster_vars, network_vars, key_vars>>

\* bisweb_scraper.py line 183: save_results(results, bin_number).
ThreadSave(t) ==
    /\ thr[t].pc = "detail"
    /\ thr[t].i = thr[t].total
    /\ details' = saved_details(thr[t].results)
    /\ fresh' = saved_fresh(thr[t].results)
    /\ thr' = [thr EXCEPT ![t].pc = "saved"]
    /\ UNCHANGED <<SCRAPE_STATUS, req, since_done>>
    /\ UNCHANGED <<cluster_vars, network_vars, key_vars>>

\* bisweb_scraper.py line 184: the status becomes "done".
ThreadDone(t) ==
    /\ thr[t].pc = "saved"
    /\ SCRAPE_STATUS' = Status("done", Cardinality(thr[t].results),
                               Cardinality(thr[t].results))
    /\ thr' = [thr EXCEPT ![t].pc = "finished"]
    /\ since_done' = TRUE
    /\ UNCHANGED <<details, fresh, req>>
    /\ UNCHANGED <<cluster_vars, network_vars, key_vars>>

\* main.py lines 2238-2241: scrape_complaints raises (the import, the
\* browser connection, a database call) and bg_scrape records the error.
ThreadFails(t) ==
    /\ thr[t].pc \in {"begin", "list", "detail"}
    /\ SCRAPE_STATUS' = Status("error", 0, 0)
    /\ thr' = [thr EXCEPT ![t].pc = "failed"]
    /\ UNCHANGED <<details, fresh, req, since_done>>
    /\ UNCHANGED <<cluster_vars, network_vars, key_vars>>

\* Seven days pass (bisweb_scraper.py line 58: age < 7).
Expire ==
    /\ fresh \/ since_done
    /\ fresh' = FALSE
    /\ since_done' = FALSE
    /\ UNCHANGED <<SCRAPE_STATUS, details, req, thr>>
    /\ UNCHANGED <<cluster_vars, network_vars, key_vars>>

ScrapeNext ==
    \/ \E r \in Requests : ReqGetCached(r)
    \/ \E r \in Requests : ReqCheckStatus(r)
    \/ \E r \in Requests : ReqStartThread(r)
    \/ \E t \in Requests : ThreadBegin(t)
    \/ \E t \in Requests : ThreadList(t)
    \/ \E t \in Requests : ThreadDetail(t)
    \/ \E t \in Requests : ThreadSave(t)
    \/ \E t \in Requests : ThreadDone(t)
    \/ \E t \in Requests : ThreadFails(t)
    \/ Expire

SpecScrape == ScrapeInit /\ [][ScrapeNext]_vars

\* A scrape thread that has been started and has not ended.
Running(t) == thr[t].pc \in {"begin", "list", "detail", "saved"}

(***************************************************************************)
(* _fuzzy_cluster_key on its own, and on its own output                    *)
(***************************************************************************)

KeyInit ==
    /\ kname \in SeqsUpTo(KeyAlphabet, MaxKeyLen)
    /\ kkey = NULL
    /\ kcalls = 0
    /\ kpc = "call"
    /\ ClusterIdle
    /\ NetworkIdle
    /\ ScrapeIdle

\* Lines 1167-1185: one call, from entry to `return s`.
KeyReturn ==
    /\ kpc = "call"
    /\ kkey' = _fuzzy_cluster_key(kname)
    /\ kcalls' = kcalls + 1
    /\ kpc' = "done"
    /\ UNCHANGED kname
    /\ UNCHANGED <<cluster_vars, network_vars, scrape_vars>>

\* The caller hands the returned key to the function again.
KeyAgain ==
    /\ kpc = "done"
    /\ kcalls < MaxKeyCalls
    /\ kname' = kkey
    /\ kkey' = NULL
    /\ kpc' = "call"
    /\ UNCHANGED kcalls
    /\ UNCHANGED <<cluster_vars, network_vars, scrape_vars>>

KeyNext == KeyReturn \/ KeyAgain

SpecKey == KeyInit /\ [][KeyNext]_vars

(***************************************************************************)
(* _cluster_entities, one loop iteration at a time                         *)
(***************************************************************************)

ClusterInit ==
    /\ names \in SeqsUpTo(ClusterNames, MaxNames)
    /\ pos = 0
    /\ key_map = <<>>
    /\ result = EmptyDict
    /\ cpc = "loop"
    /\ NetworkIdle
    /\ KeyIdle
    /\ ScrapeIdle

\* `for name in names:` body, lines 1194-1214.
ClusterLoop ==
    /\ cpc = "loop"
    /\ pos < Len(names)
    /\ key_map' = cluster_add(key_map, names[pos + 1])
    /\ pos' = pos + 1
    /\ UNCHANGED <<names, result, cpc>>
    /\ UNCHANGED <<network_vars, key_vars, scrape_vars>>

\* The first loop is exhausted.
ClusterLoopEnd ==
    /\ cpc = "loop"
    /\ pos = Len(names)
    /\ cpc' = "build"
    /\ UNCHANGED <<names, pos, key_map, result>>
    /\ UNCHANGED <<network_vars, key_vars, scrape_vars>>

\* Lines 1217-1224: build the mapping and return it.
ClusterReturn ==
    /\ cpc = "build"
    /\ result' = build_result(key_map, 1, EmptyDict)
    /\ cpc' = "done"
    /\ UNCHANGED <<names, pos, key_map>>
    /\ UNCHANGED <<network_vars, key_vars, scrape_vars>>

ClusterNext == ClusterLoop \/ ClusterLoopEnd \/ ClusterReturn

SpecCluster == ClusterInit /\ [][ClusterNext]_vars

(***************************************************************************)
(* get_owner_network                                                       *)
(***************************************************************************)

Init ==
    /\ hpd_contacts \in {C \in SUBSET ContactPool : Cardinality(C) <= MaxContacts}
    /\ name \in SeedNames
    /\ pc = "start"
    /\ conn = "none"
    /\ rows = <<>>
    /\ corpnames = <<>>
    /\ corp_canonical = EmptyDict
    /\ acc = EmptyAcc
    /\ response = NULL
    /\ exc = "none"
    /\ ClusterIdle
    /\ KeyIdle
    /\ ScrapeIdle

\* Line 1228: a name shorter than min_length does not pass validation;
\* the request is answered with a validation error and the function is
\* not called.
RejectName ==
    /\ pc = "start"
    /\ Len(name) < MinLength
    /\ pc' = "rejected"
    /\ UNCHANGED <<exc, hpd_contacts, name, conn, rows, corpnames, corp_canonical, acc,
                   response>>
    /\ UNCHANGED <<cluster_vars, key_vars, scrape_vars>>

\* Lines 1230-1231: conn = get_db(); cur = conn.cursor(...).
GetDb ==
    /\ pc = "start"
    /\ Len(name) >= MinLength
    /\ conn' = "open"
    /\ pc' = "query"
    /\ UNCHANGED <<exc, hpd_contacts, name, rows, corpnames, corp_canonical, acc, response>>
    /\ UNCHANGED <<cluster_vars, key_vars, scrape_vars>>

\* Lines 1249-1323: cur.execute(...), rows = cur.fetchall(), cur.close(),
\* conn.close().  The rows come in any order.
Execute ==
    /\ pc = "query"
    /\ \E bins \in all_network_bins(hpd_contacts, hpd_registrations, name) :
          rows' \in FetchOrders(result_rows(hpd_contacts, hpd_registrations,
                                            building_scores, bins))
    /\ conn' = "closed"
    /\ pc' = "fetched"
    /\ UNCHANGED <<exc, hpd_contacts, name, corpnames, corp_canonical, acc, response>>
    /\ UNCHANGED <<cluster_vars, key_vars, scrape_vars>>

\* Faulty variant of ExecuteFails: the exception is caught and the rows
\* are taken to be none.
ExecuteFailsMasked ==
    /\ pc = "query"
    /\ exc' = "execute"
    /\ rows' = <<>>
    /\ pc' = "fetched"
    /\ UNCHANGED <<hpd_contacts, name, conn, corpnames, corp_canonical, acc, response>>
    /\ UNCHANGED <<cluster_vars, key_vars, scrape_vars>>

\* Line 1230: psycopg2.connect raises in get_db: nothing encloses the
\* call, the exception leaves the function.
GetDbFails ==
    /\ pc = "start"
    /\ Len(name) >= MinLength
    /\ exc' = "connect"
    /\ pc' = "raised"
    /\ UNCHANGED <<hpd_contacts, name, conn, rows, corpnames, corp_canonical, acc,
                   response>>
    /\ UNCHANGED <<cluster_vars, key_vars, scrape_vars>>

\* Line 1249: cur.execute raises: the exception leaves the function before
\* line 1322 and the connection is not closed.
ExecuteFails ==
    /\ pc = "query"
    /\ exc' = "execute"
    /\ pc' = "raised"
    /\ UNCHANGED <<hpd_contacts, name, conn, rows, corpnames, corp_canonical, acc,
                   response>>
    /\ UNCHANGED <<cluster_vars, key_vars, scrape_vars>>

\* Line 1321: cur.fetchall raises after the query has run: no row is
\* bound, the exception leaves the function before line 1322.
FetchallFails ==
    /\ pc = "query"
    /\ exc' = "fetchall"
    /\ pc' = "raised"
    /\ UNCHANGED <<hpd_contacts, name, conn, rows, corpnames, corp_canonical, acc,
                   response>>
    /\ UNCHANGED <<cluster_vars, key_vars, scrape_vars>>

\* Lines 1325-1326: `if not rows: return {...}`.
ReturnEmpty ==
    /\ pc = "fetched"
    /\ rows = <<>>
    /\ response' = empty_response(name)
    /\ pc' = "done"
    /\ UNCHANGED <<exc, hpd_contacts, name, conn, rows, corpnames, corp_canonical, acc>>
    /\ UNCHANGED <<cluster_vars, key_vars, scrape_vars>>

\* Lines 1334-1340: the set of corporate names, listed in the iteration
\* order of the set, and clustered.
ClusterCorpnames ==
    /\ pc = "fetched"
    /\ rows # <<>>
    /\ corpnames' \in Orderings(all_corpnames(rows))
    /\ corp_canonical' = _cluster_entities(corpnames')
    /\ pc' = "assemble"
    /\ UNCHANGED <<exc, hpd_contacts, name, conn, rows, acc, response>>
    /\ UNCHANGED <<cluster_vars, key_vars, scrape_vars>>

\* Lines 1342-1438: fold the rows into nodes and edges and return.
BuildGraph ==
    /\ pc = "assemble"
    /\ acc' = process_rows(rows, 1, Len(rows), corp_canonical, EmptyAcc)
    /\ response' = graph_response(name, acc')
    /\ pc' = "done"
    /\ UNCHANGED <<exc, hpd_contacts, name, conn, rows, corpnames, corp_canonical>>
    /\ UNCHANGED <<cluster_vars, key_vars, scrape_vars>>

Next ==
    \/ RejectName
    \/ GetDb
    \/ GetDbFails
    \/ Execute
    \/ ExecuteFails
    \/ FetchallFails
    \/ ReturnEmpty
    \/ ClusterCorpnames
    \/ BuildGraph

Spec == Init /\ [][Next]_vars

\* get_owner_network on the large portfolio.
LimitInit ==
    /\ hpd_contacts = LargeContacts
    /\ name \in LargeSeedNames
    /\ pc = "start"
    /\ conn = "none"
    /\ rows = <<>>
    /\ corpnames = <<>>
    /\ corp_canonical = EmptyDict
    /\ acc = EmptyAcc
    /\ response = NULL
    /\ exc = "none"
    /\ ClusterIdle
    /\ KeyIdle
    /\ ScrapeIdle

SpecLimit == LimitInit /\ [][Next]_vars

\* get_owner_network on NameAnchor and rows of NamePool.
NamesInit ==
    /\ hpd_contacts \in {{NameAnchor} \cup C :
                            C \in {D \in SUBSET NamePool : Cardinality(D) <= MaxContacts}}
    /\ name \in NameSeedNames
    /\ pc = "start"
    /\ conn = "none"
    /\ rows = <<>>
    /\ corpnames = <<>>
    /\ corp_canonical = EmptyDict
    /\ acc = EmptyAcc
    /\ response = NULL
    /\ exc = "none"
    /\ ClusterIdle
    /\ KeyIdle
    /\ ScrapeIdle

SpecNames == NamesInit /\ [][Next]_vars

(***************************************************************************)
(* Vocabulary of the properties                                            *)
(***************************************************************************)

Range(seq) == {seq[i] : i \in 1..Len(seq)}

\* PersonKey of a row: uppercased, trimmed first and last name.
PersonKeyOf(r) == <<upper(strip(OrEmpty(r.firstname))), upper(strip(OrEmpty(r.lastname)))>>
HasPersonKey(r) == PersonKeyOf(r)[1] # <<>> /\ PersonKeyOf(r)[2] # <<>>

\* Corporate name of a row as the clusterer sees it, and its canonical label.
CorpOf(r) == upper(strip(OrEmpty(r.corporationname)))
HasCorp(r) == CorpOf(r) # <<>>
LabelOf(r) == canonical_of(corp_canonical, CorpOf(r))

NodeIndices(type) == {i \in 1..Len(response.nodes) : response.nodes[i].type = type}
NodeIds(type) == {response.nodes[i].id : i \in NodeIndices(type)}

Triple(e) == <<e.source, e.target, e.relation>>
FirstIndex(seq, t) == CHOOSE i \in 1..Len(seq) :
                         Triple(seq[i]) = t /\ \A j \in 1..(i - 1) : Triple(seq[j]) # t

IsSiteManager(c) == c.type = Chars("SiteManager")

\* CanonicalKey of a raw name.
Key(n) == _fuzzy_cluster_key(n)

\* The CanonicalKeys of the input names, by position.
Keys == SubSeq([i \in 1..Len(names) |-> Key(names[i])], 1, Len(names))

\* The names of cluster m.
Members(m) == Range(key_map[m].variants)

\* SequenceMatcher(None, a, b).ratio() against 0.85 = 17/20.
Above(r) == 20 * r[1] > 17 * r[2]
Exactly(r) == 20 * r[1] = 17 * r[2]
Above085(a, b) == Above(ratio(a, b))
Exactly085(a, b) == Exactly(ratio(a, b))
AtLeast085(a, b) == LET r == ratio(a, b) IN Above(r) \/ Exactly(r)
Below085(a, b) == ~AtLeast085(a, b)

(***************************************************************************)
(* Properties of get_owner_network                                         *)
(***************************************************************************)

\* C1: the returned graph has exactly one person node per distinct
\* PersonKey of the rows, one entity node per distinct canonical label and
\* one building node per distinct building id: as many nodes of each type
\* as there are keys, and every key has its node.
C1_OneNodePerKey ==
    pc = "done" =>
        LET people == {PersonKeyOf(r) : r \in {q \in Range(rows) : HasPersonKey(q)}}
            labels == {LabelOf(r) : r \in {q \in Range(rows) : HasCorp(q)}}
            bins == {r.bin : r \in {q \in Range(rows) : Truthy(q.bin)}}
        IN  /\ Cardinality(NodeIndices("person")) = Cardinality(people)
            /\ \A k \in people : person_id(k[1], k[2]) \in NodeIds("person")
            /\ Cardinality(NodeIndices("entity")) = Cardinality(labels)
            /\ \A l \in labels : entity_id(l) \in NodeIds("entity")
            /\ Cardinality(NodeIndices("building")) = Cardinality(bins)
            /\ \A b \in bins : building_id(b) \in NodeIds("building")
            /\ Len(response.nodes)
                 = Cardinality(people) + Cardinality(labels) + Cardinality(bins)

\* C1 witness: a graph built from rows that repeat a PersonKey, a building
\* and, under two different raw names, a canonical label.
C1_Witness ==
    /\ pc = "done"
    /\ \E i, j \in 1..Len(rows) :
          /\ i # j
          /\ HasPersonKey(rows[i]) /\ PersonKeyOf(rows[i]) = PersonKeyOf(rows[j])
    /\ \E i, j \in 1..Len(rows) :
          /\ HasCorp(rows[i]) /\ HasCorp(rows[j])
          /\ CorpOf(rows[i]) # CorpOf(rows[j])
          /\ LabelOf(rows[i]) = LabelOf(rows[j])
    /\ \E i, j \in 1..Len(rows) :
          i # j /\ Truthy(rows[i].bin) /\ rows[i].bin = rows[j].bin

\* C2: in every returned graph both endpoints of every edge are ids of
\* nodes of that graph.
C2_EdgeEndpointsExist ==
    pc = "done" =>
        \A i \in 1..Len(response.edges) :
            /\ \E n \in 1..Len(response.nodes) :
                  response.nodes[n].id = response.edges[i].source
            /\ \E n \in 1..Len(response.nodes) :
                  response.nodes[n].id = response.edges[i].target

\* C2 witness: a graph with a person-building, an entity-building and a
\* person-entity edge, the entity standing for a raw name other than its
\* label.
C2_Witness ==
    /\ pc = "done"
    /\ \E e \in Range(response.edges) :
          e.source \in NodeIds("person") /\ e.target \in NodeIds("building")
    /\ \E e \in Range(response.edges) :
          e.source \in NodeIds("entity") /\ e.target \in NodeIds("building")
    /\ \E e \in Range(response.edges) :
          e.source \in NodeIds("person") /\ e.target \in NodeIds("entity")
    /\ \E r \in Range(rows) :
          HasCorp(r) /\ HasPersonKey(r) /\ LabelOf(r) # CorpOf(r)

\* C3: the returned edge list holds no (source, target, relation) triple
\* twice, holds every triple the rows produced, and holds them in the
\* order of their first observation.
C3_EdgesDeduplicated ==
    pc = "done" =>
        LET U == response.edges
            R == acc.edges
        IN  /\ \A i, j \in 1..Len(U) : Triple(U[i]) = Triple(U[j]) => i = j
            /\ {Triple(e) : e \in Range(U)} = {Triple(e) : e \in Range(R)}
            /\ \A i, j \in 1..Len(U) :
                  i < j => FirstIndex(R, Triple(U[i])) < FirstIndex(R, Triple(U[j]))

\* C3 witness: the rows observed one triple twice and two triples that
\* differ in the relation alone.
C3_Witness ==
    /\ pc = "done"
    /\ \E i, j \in 1..Len(acc.edges) :
          i # j /\ Triple(acc.edges[i]) = Triple(acc.edges[j])
    /\ \E i, j \in 1..Len(acc.edges) :
          /\ acc.edges[i].source = acc.edges[j].source
          /\ acc.edges[i].target = acc.edges[j].target
          /\ acc.edges[i].relation # acc.edges[j].relation

\* C4: site-manager contacts contribute nothing: no fetched row is a
\* site-manager row, and the fetched rows are exactly the rows the query
\* gives on the table with the site-manager contacts deleted (so they seed
\* nothing, are no hop-1 contacts and expand no second hop; the graph is
\* built from the rows alone).
C4_SiteManagerExcluded ==
    pc \in {"fetched", "assemble", "done"} =>
        LET others == {c \in hpd_contacts : ~IsSiteManager(c)}
        IN  /\ \A r \in Range(rows) : ~IsSiteManager(r)
            /\ \E bins \in all_network_bins(others, hpd_registrations, name) :
                  Range(rows) = result_rows(others, hpd_registrations,
                                            building_scores, bins)

\* C4 witness: a graph was returned although a site manager sits on a
\* registration of one of its buildings and shares a corporate name with
\* a contact that stayed outside the result.
C4_Witness ==
    /\ pc = "done"
    /\ rows # <<>>
    /\ \E c, d \in hpd_contacts :
          /\ IsSiteManager(c)
          /\ \E r \in hpd_registrations :
                /\ r.registrationid = c.registrationid
                /\ \E q \in Range(rows) : q.bin = r.bin
          /\ ~IsSiteManager(d)
          /\ NotSiteManager(d)
          /\ d.corporationname # NULL
          /\ sql_upper_trim(d.corporationname) = sql_upper_trim(c.corporationname)
          /\ \A q \in Range(rows) : q.registrationcontactid # d.registrationcontactid

\* The seed name matches no contact row.
NoSeedMatch == \A c \in hpd_contacts : ~seed_where(c, name)

HasEdge(s, t) == \E e \in Range(response.edges) : e.source = s /\ e.target = t

\* The fetched rows are the three rows of the example: ACME HOLDINGS LLC as
\* CorporateOwner on building 1001, Acme Holdings Inc as CorporateOwner on
\* building 1002, and JOHN DOE of ACME HOLDINGS LLC as Agent on 1001.
AcmeRows ==
    /\ Len(rows) = 3
    /\ {r.registrationcontactid : r \in Range(rows)} = {1, 2, 3}

\* C13: on the three rows of the example the graph has one entity node
\* with edges to both buildings, one person node with an edge to building
\* 1001 and an edge to the entity, and stats 2 / 1 / 1.
C13_AcmeExample ==
    (pc = "done" /\ AcmeRows) =>
        LET john == person_id(Chars("JOHN"), Chars("DOE"))
            b1 == building_id(Chars("1001"))
            b2 == building_id(Chars("1002"))
        IN  /\ Cardinality(NodeIndices("entity")) = 1
            /\ \A n \in NodeIndices("entity") :
                  /\ response.nodes[n].id \in
                        {entity_id(Chars("ACME HOLDINGS LLC")),
                         entity_id(Chars("ACME HOLDINGS INC"))}
                  /\ HasEdge(response.nodes[n].id, b1)
                  /\ HasEdge(response.nodes[n].id, b2)
                  /\ HasEdge(john, response.nodes[n].id)
            /\ Cardinality(NodeIndices("person")) = 1
            /\ NodeIds("person") = {john}
            /\ HasEdge(john, b1)
            /\ NodeIds("building") = {b1, b2}
            /\ response.stats.total_buildings = 2
            /\ response.stats.total_people = 1
            /\ response.stats.total_entities = 1

\* C13 witness: the graph was returned for the three rows of the example.
C13_Witness ==
    /\ pc = "done"
    /\ AcmeRows
    /\ Len(response.nodes) = 4

\* C14: in every response the three totals are the numbers of building,
\* person and entity nodes, and stats.boroughs lists exactly the non-empty
\* boroughs of the building nodes, each once, in ascending order.
C14_StatsMatchNodes ==
    pc = "done" =>
        LET B == response.stats.boroughs
            named == {response.nodes[i].borough : i \in NodeIndices("building")} \ {<<>>}
        IN  /\ response.stats.total_buildings = Cardinality(NodeIndices("building"))
            /\ response.stats.total_people = Cardinality(NodeIndices("person"))
            /\ response.stats.total_entities = Cardinality(NodeIndices("entity"))
            /\ Range(B) = named
            /\ \A i \in 1..(Len(B) - 1) : StrLess(B[i], B[i + 1])

\* C14 witness: a graph with a building without borough and two buildings
\* in different boroughs, the first of them in the node list being the one
\* whose borough sorts last.
C14_Witness ==
    /\ pc = "done"
    /\ \E i \in NodeIndices("building") : response.nodes[i].borough = <<>>
    /\ \E i, j \in NodeIndices("building") :
          /\ i < j
          /\ response.nodes[j].borough # <<>>
          /\ StrLess(response.nodes[j].borough, response.nodes[i].borough)
    /\ NodeIndices("person") # {}
    /\ NodeIndices("entity") # {}

\* The bins the whole traversal reaches, before the LIMIT.
ReachedBins ==
    CHOOSE bins \in all_network_bins_unlimited(hpd_contacts, hpd_registrations, name) : TRUE

\* C15: no returned graph has more than BinLimit building nodes.
C15_AtMostLimitBuildings ==
    pc = "done" => Cardinality(NodeIndices("building")) <= BinLimit

\* C15 witness: a graph was returned with BinLimit building nodes when the
\* traversal reached more than BinLimit buildings.
C15_Witness ==
    /\ pc = "done"
    /\ Cardinality(ReachedBins) > BinLimit
    /\ Cardinality(NodeIndices("building")) = BinLimit

\* The traversal in the terms of the graph: a building is a non-empty
\* bin, a contact takes part when its role is recorded and is not the
\* site manager's, a person is a PersonKey and a corporate name the
\* uppercased, trimmed name.
IsBuilding(bin) == bin # NULL /\ bin # <<>>
BuildingsOf(regids) ==
    {r.bin : r \in {q \in hpd_registrations :
                        q.registrationid \in regids /\ IsBuilding(q.bin)}}
ContactsOn(bins) ==
    {c \in hpd_contacts :
        /\ NotSiteManager(c)
        /\ \E r \in hpd_registrations : r.registrationid = c.registrationid /\ r.bin \in bins}
SharesKey(c, d) ==
    \/ HasPersonKey(c) /\ HasPersonKey(d) /\ PersonKeyOf(c) = PersonKeyOf(d)
    \/ HasCorp(c) /\ HasCorp(d) /\ CorpOf(c) = CorpOf(d)
RegistrationsSharingWith(from) ==
    {c.registrationid :
        c \in {d \in hpd_contacts : NotSiteManager(d) /\ \E h \in from : SharesKey(d, h)}}

SeedBuildings == BuildingsOf(seed_registrations(hpd_contacts, name))
Hop1Contacts == ContactsOn(SeedBuildings)
TwoHopBuildings ==
    SeedBuildings \cup BuildingsOf(RegistrationsSharingWith(Hop1Contacts))
ThirdHopBuildings ==
    BuildingsOf(RegistrationsSharingWith(ContactsOn(TwoHopBuildings))) \ TwoHopBuildings

C17_EveryOtherContactContributes ==
    pc = "done" =>
        \A c \in hpd_contacts :
            (/\ ~IsSiteManager(c)
             /\ \E r \in hpd_registrations :
                   /\ r.registrationid = c.registrationid
                   /\ IsBuilding(r.bin)
                   /\ building_id(r.bin) \in NodeIds("building"))
            => /\ HasPersonKey(c) =>
                     person_id(PersonKeyOf(c)[1], PersonKeyOf(c)[2]) \in NodeIds("person")
               /\ HasCorp(c) => entity_id(LabelOf(c)) \in NodeIds("entity")

\* The graph get_owner_network returns for the fetched rows when
\* list(all_corpnames) comes out in the order `order`.
GraphFor(order) ==
    graph_response(name, process_rows(rows, 1, Len(rows), _cluster_entities(order), EmptyAcc))

\* C18: the returned graph is fixed by the sequence of fetched rows: in
\* whatever order the distinct corporate names are handed to the
\* clusterer, the canonical labels and the graph are the ones returned.
C18_GraphFixedByRows ==
    (pc = "done" /\ rows # <<>>) =>
        \A order \in Orderings(all_corpnames(rows)) :
            /\ _cluster_entities(order) = corp_canonical
            /\ GraphFor(order) = response

\* C19: once a database call of get_owner_network has raised (the
\* connect, the execute or the fetchall), the request has ended with the
\* exception: nothing is returned, neither a partial nor an empty graph,
\* and no further step of the function is taken, in particular no retry.
C19_DatabaseFailureRaises ==
    exc # "none" => (pc = "raised" /\ response = NULL /\ ~ENABLED Next)

\* C19 witness: the query raised on a database in which the seed has
\* buildings to show.
C19_Witness ==
    /\ exc = "execute"
    /\ pc = "raised"
    /\ SeedBuildings # {}

\* A seed name that is empty, all whitespace or all punctuation.
IsPunctuation(c) == ~IsWordChar(c) /\ ~IsSpace(c)
DegenerateSeed(n) ==
    \/ \A i \in 1..Len(n) : IsSpace(n[i])
    \/ \A i \in 1..Len(n) : IsPunctuation(n[i])

\* C20: a request with a degenerate seed name is not answered with an
\* error; its query fetches no row, and what it returns is the empty
\* graph.
C20_DegenerateSeedEmptyGraph ==
    DegenerateSeed(name) =>
        /\ pc # "rejected"
        /\ pc # "assemble"
        /\ pc = "fetched" => rows = <<>>
        /\ pc = "done" => response = empty_response(name)

\* The corporate names of the fetched rows, and those of them whose
\* CanonicalKey is empty.
RowCorps == {CorpOf(r) : r \in {q \in Range(rows) : HasCorp(q)}}
EmptyKeyCorps == {n \in RowCorps : Key(n) = <<>>}

\* The entries of the entities dict that stand for the corporate name n.
EntitiesOf(n) ==
    {i \in 1..Len(acc.entities) : acc.entities[i].key = canonical_of(corp_canonical, n)}

\* C21: in a returned graph every corporate name with an empty
\* CanonicalKey has an entity node of its own, labelled with the name
\* itself: no other corporate name of the rows, with an empty key or not,
\* resolves to that node.
C21_EmptyKeyNamesStaySingle ==
    pc = "done" =>
        \A n \in EmptyKeyCorps :
            /\ canonical_of(corp_canonical, n) = n
            /\ Cardinality(EntitiesOf(n)) = 1
            /\ \A m \in RowCorps \ {n} : EntitiesOf(m) \cap EntitiesOf(n) = {}
            /\ \E i \in NodeIndices("entity") :
                  /\ response.nodes[i].id = entity_id(n)
                  /\ response.nodes[i].label = title(n)

\* C21 witness: a returned graph for rows with two different empty-key
\* corporate names and a corporate name with a key.
C21_Witness ==
    /\ pc = "done"
    /\ Cardinality(EmptyKeyCorps) >= 2
    /\ RowCorps \ EmptyKeyCorps # {}
    /\ Cardinality(NodeIndices("entity")) >= 3

\* The role label of a row: the contact description, else the type.
RoleOf(r) ==
    IF Truthy(r.contactdescription) THEN r.contactdescription ELSE OrEmpty(r.type)

\* The PersonKeys of the fetched rows and the rows of one PersonKey.
RowPeople == {PersonKeyOf(r) : r \in {q \in Range(rows) : HasPersonKey(q)}}
RowsOfPerson(k) == {r \in Range(rows) : HasPersonKey(r) /\ PersonKeyOf(r) = k}

\* The person nodes of the response that stand for the PersonKey k.
PersonNodes(k) ==
    {i \in NodeIndices("person") :
        /\ response.nodes[i].id = person_id(k[1], k[2])
        /\ response.nodes[i].label = title(k[1]) \o <<" ">> \o title(k[2])}

\* C22: in a returned graph every PersonKey of the rows has one person
\* node, and the roles of that node are exactly the role labels of the
\* rows with that PersonKey, each listed once.
C22_RolesOfPersonKey ==
    pc = "done" =>
        \A k \in RowPeople :
            /\ Cardinality(PersonNodes(k)) = 1
            /\ \A i \in PersonNodes(k) :
                  /\ Range(response.nodes[i].roles) = {RoleOf(r) : r \in RowsOfPerson(k)}
                  /\ Len(response.nodes[i].roles)
                        = Cardinality({RoleOf(r) : r \in RowsOfPerson(k)})

\* C22 witness: a returned graph in which one PersonKey is carried by a
\* row whose role comes from its description and by a row whose role
\* comes from its type, the two roles differing.
C22_Witness ==
    /\ pc = "done"
    /\ \E r, q \in Range(rows) :
          /\ HasPersonKey(r) /\ HasPersonKey(q)
          /\ PersonKeyOf(r) = PersonKeyOf(q)
          /\ Truthy(r.contactdescription)
          /\ ~Truthy(q.contactdescription)
          /\ RoleOf(r) # RoleOf(q)
          /\ \A i \in PersonNodes(PersonKeyOf(r)) : Len(response.nodes[i].roles) >= 2

\* The edges of the response from a person node to an entity node, as
\* triples, and the triple of a row that carries a person and a
\* corporate name.
PersonEntityEdges ==
    {Triple(e) : e \in {d \in Range(response.edges) :
                            /\ d.source \in NodeIds("person")
                            /\ d.target \in NodeIds("entity")}}
PersonEntityOf(r) ==
    <<person_id(PersonKeyOf(r)[1], PersonKeyOf(r)[2]), entity_id(LabelOf(r)), RoleOf(r)>>

C25_NodeIdsDistinct ==
    pc = "done" =>
        \A i, j \in 1..Len(response.nodes) :
            response.nodes[i].id = response.nodes[j].id => i = j

(***************************************************************************)
(* Properties of _cluster_entities                                         *)
(***************************************************************************)

C7_MostFrequentFirstSeen ==
    cpc = "done" =>
        \A m \in 1..Len(key_map) :
            LET V == key_map[m].variants
                count(v) == Cardinality({i \in 1..Len(V) : V[i] = v})
                seen(v) == CHOOSE i \in 1..Len(names) :
                             names[i] = v /\ \A j \in 1..(i - 1) : names[j] # v
                label == result[V[1]]
            IN  /\ label \in Members(m)
                /\ \A v \in Members(m) :
                      /\ result[v] = label
                      /\ count(v) <= count(label)
                      /\ count(v) = count(label) => seen(label) <= seen(v)

\* C7 witness: a cluster of two different names whose label is not its
\* first member, because the other name occurs more often.
C7_Witness ==
    /\ cpc = "done"
    /\ \E m \in 1..Len(key_map) :
          /\ Cardinality(Members(m)) = 2
          /\ result[key_map[m].variants[1]] # key_map[m].variants[1]

\* C8: names with the same non-empty CanonicalKey get the same label, and
\* at every point no two clusters hold names with the same CanonicalKey.
C8_SameKeySameCluster ==
    LET K == Keys
    IN  /\ cpc = "done" =>
              \A i, j \in 1..Len(names) :
                  (K[i] # <<>> /\ K[i] = K[j])
                      => result[names[i]] = result[names[j]]
        /\ \A m, e \in 1..Len(key_map) :
              m < e => \A i, j \in 1..Len(names) :
                          (names[i] \in Members(m) /\ names[j] \in Members(e))
                              => K[i] # K[j]

\* C8 witness: two different raw names with one key sit together in a
\* cluster that is not the first.
C8_Witness ==
    /\ cpc = "done"
    /\ \E m \in 2..Len(key_map) :
          \E v, w \in Members(m) : v # w /\ Key(v) = Key(w)

\* C9 as claimed: any two names whose keys have a ratio above the
\* threshold get the same label.
C9_SimilarKeysSameCluster ==
    cpc = "done" =>
        LET K == Keys
        IN  \A i, j \in 1..Len(names) :
                (/\ K[i] # <<>>
                 /\ K[j] # <<>>
                 /\ Above085(K[i], K[j]))
                    => result[names[i]] = result[names[j]]

\* C9 amended: two names whose keys have a ratio above the threshold get
\* the same label when the key of the one is the key of a cluster and the
\* key of the other neither equals nor has a ratio above the threshold
\* with the key of any cluster created before that one.
C9_FirstSimilarClusterWins ==
    cpc = "done" =>
        LET K == Keys
        IN  \A i, j \in 1..Len(names) :
            LET a == K[i]
                b == K[j]
            IN  (/\ a # <<>>
                 /\ b # <<>>
                 /\ \E m \in 1..Len(key_map) :
                       /\ key_map[m].key = b
                       /\ \A e \in 1..(m - 1) :
                             /\ key_map[e].key # a
                             /\ ~Above085(a, key_map[e].key)
                 /\ Above085(a, b))
                    => result[names[i]] = result[names[j]]

\* C9 witness: a name joined, by similarity alone, a cluster that is not
\* the first.
C9_Witness ==
    /\ cpc = "done"
    /\ \E m \in 2..Len(key_map) :
          \E v \in Members(m) :
              /\ Key(v) # key_map[m].key
              /\ Above085(Key(v), key_map[m].key)
              /\ result[v] = result[key_map[m].variants[1]]

\* C10 as claimed: a name whose key has a ratio of 0.85 or more with a
\* cluster key, and that matches no earlier cluster, is in that cluster.
C10_MergesAtThreshold ==
    cpc = "done" =>
        LET K == Keys
        IN  \A i \in 1..Len(names), m \in 1..Len(key_map) :
            LET a == K[i]
            IN  (/\ a # <<>>
                 /\ AtLeast085(a, key_map[m].key)
                 /\ \A e \in 1..(m - 1) :
                       /\ key_map[e].key # a
                       /\ ~AtLeast085(a, key_map[e].key))
                    => names[i] \in Members(m)

\* C10 amended: a name whose key has a ratio above 0.85 with a cluster
\* key, and that matches no earlier cluster, is in that cluster; a name
\* whose key has a ratio of exactly 0.85 with a cluster key is not.
C10_MergesAboveThresholdOnly ==
    cpc = "done" =>
        LET K == Keys
        IN  \A i \in 1..Len(names), m \in 1..Len(key_map) :
            LET a == K[i]
                r == ratio(a, key_map[m].key)
            IN  a # <<>> =>
                    /\ (/\ Above(r)
                        /\ \A e \in 1..(m - 1) :
                              /\ key_map[e].key # a
                              /\ ~Above085(a, key_map[e].key))
                           => names[i] \in Members(m)
                    /\ Exactly(r) => names[i] \notin Members(m)

\* C10 witness: a name met a cluster key at a ratio of exactly 0.85 and
\* founded its own cluster, and a name met a cluster key just above it and
\* joined.
C10_Witness ==
    /\ cpc = "done"
    /\ \E m, e \in 1..Len(key_map) :
          m < e /\ Exactly085(key_map[e].key, key_map[m].key)
    /\ \E m \in 1..Len(key_map) :
          \E v \in Members(m) :
              /\ Key(v) # key_map[m].key
              /\ Above085(Key(v), key_map[m].key)

\* C11 as claimed: two names whose keys differ and have a ratio below 0.85
\* with each other never get the same label.
C11_DissimilarKeysApart ==
    cpc = "done" =>
        LET K == Keys
        IN  \A i, j \in 1..Len(names) :
                (/\ K[i] # <<>>
                 /\ K[j] # <<>>
                 /\ K[i] # K[j]
                 /\ result[names[i]] = result[names[j]])
                    => ~(Below085(K[i], K[j]) /\ Below085(K[j], K[i]))

\* C11 amended: every member of a cluster has the key of the cluster or a
\* key whose ratio with the key of the cluster is above 0.85; a name whose
\* key differs from a cluster's key and has a ratio of 0.85 or less with it
\* is not in that cluster.
C11_DissimilarToClusterKeyApart ==
    cpc = "done" =>
        LET K == Keys
        IN  \A i \in 1..Len(names), m \in 1..Len(key_map) :
                (K[i] # <<>> /\ names[i] \in Members(m))
                    => (K[i] = key_map[m].key \/ Above085(K[i], key_map[m].key))

\* C11 witness: a name met a cluster key that differs from its key at a
\* ratio below 0.85 and stayed out of that cluster, while another name
\* joined a cluster by similarity.
C11_Witness ==
    /\ cpc = "done"
    /\ \E m, e \in 1..Len(key_map) :
          m < e /\ Below085(key_map[e].key, key_map[m].key)
    /\ \E m \in 1..Len(key_map) :
          \E v \in Members(m) : Key(v) # key_map[m].key

\* C27: when the traversal reaches more than BinLimit buildings, every
\* building of a seed registration is still a building node of the
\* returned graph.
C27_SeedBuildingsKept ==
    (pc = "done" /\ Cardinality(ReachedBins) > BinLimit) =>
        {building_id(b) : b \in SeedBuildings} \subseteq NodeIds("building")

\* The building nodes that are the target of an edge whose source is the
\* id of node i.
BuildingTargets(i) ==
    {e.target : e \in {d \in Range(response.edges) :
                           /\ d.source = response.nodes[i].id
                           /\ d.target \in NodeIds("building")}}

\* C28: in a returned graph the building_count of every person node and of
\* every entity node is the number of distinct building nodes that are the
\* target of an edge from that node.
C28_BuildingCountMatchesEdges ==
    pc = "done" =>
        \A i \in NodeIndices("person") \cup NodeIndices("entity") :
            response.nodes[i].building_count = Cardinality(BuildingTargets(i))

\* C29: when a call of get_owner_network has ended, by a return or by an
\* exception, the connection it opened is closed.
C29_ConnectionClosedOnEveryPath ==
    pc \in {"done", "raised"} => conn # "open"

\* C26: at every point of _cluster_entities, the key of a cluster is the
\* CanonicalKey of its first member, every member has that key or a key
\* whose ratio with it is above 0.85, and the key of a cluster neither
\* equals the key of a cluster created before it nor has a ratio above
\* 0.85 with it (the ratio of the new key against the existing one, as the
\* loop computes it).
C26_ClusterInvariant ==
    \A m \in 1..Len(key_map) :
        /\ key_map[m].variants # <<>>
        /\ key_map[m].key = Key(key_map[m].variants[1])
        /\ \A v \in Members(m) :
              Key(v) = key_map[m].key \/ Above085(Key(v), key_map[m].key)
        /\ \A e \in 1..(m - 1) :
              /\ key_map[m].key # key_map[e].key
              /\ ~Above085(key_map[m].key, key_map[e].key)

\* C26 witness: inside the loop, before the result is built, there are two
\* clusters, and one has a member that joined on similarity.
C26_Witness ==
    /\ cpc = "loop"
    /\ Len(key_map) >= 2
    /\ \E m \in 1..Len(key_map) : \E v \in Members(m) : Key(v) # key_map[m].key

(***************************************************************************)
(* Properties of get_enriched_complaints                                   *)
(***************************************************************************)

\* C24: while the building has no fresh cache, at most one background
\* scrape of it is running.
C24_AtMostOneScrape ==
    ~CacheFresh => Cardinality({t \in Requests : Running(t)}) <= 1

\* C30: a request that arrives after a scrape of the building has ended
\* with status "done", the seven days not having passed, starts no scrape
\* and returns status "done" with rows of the cache, whatever the number
\* of complaints the scrape found.
C30_DoneIsServedFromCache ==
    \A r \in Requests :
        (req[r].late /\ since_done) =>
            /\ req[r].pc # "start"
            /\ thr[r].pc = "none"
            /\ req[r].pc = "returned" =>
                  (req[r].status = "done" /\ req[r].data \subseteq details)

(***************************************************************************)
(* Properties of _fuzzy_cluster_key                                        *)
(***************************************************************************)

\* C12 as claimed: the function applied to its own output returns that
\* output.
C12_KeyIdempotent ==
    (kpc = "done" /\ kcalls = 2) => kkey = kname

=============================================================================
